---- MODULE Spec2Model ----
(***************************************************************************)
(* Model of src/app.py: the process-wide rate limiter, the retrying fetch  *)
(* client and the bulk upload routes of the LinkedIn scraper API wrapper.  *)
(*                                                                         *)
(* Time is counted in tenths of a second (1.2 s = 12, 1.5 s = 15).         *)
(* Every request is served by a worker: FastAPI runs the synchronous       *)
(* routes (get_profile, ...) on thread-pool threads, so several fetches    *)
(* can be inside rate_limit at once; an async bulk route runs its blocking *)
(* loop on the event loop.                                                 *)
(***************************************************************************)
EXTENDS Integers, Sequences, FiniteSets, TLC

\* ---------------------------------------------------------------- bounds
MaxRows == 2          \* rows of an uploaded table
StartTime == 100      \* time.time() when the first request arrives

\* ------------------------------------------------------ program constants
MIN_INTERVAL == 12    \* rate_limit(min_interval=1.2)
ROW_DELAY == 15       \* time.sleep(1.5)
MAX_ATTEMPTS == 3     \* range(3)

Workers == {"w1", "w2"}
Loop == "w1"          \* the worker that may run a bulk upload route

None == "None"        \* Python None (header absent)
NaN == "NaN"          \* pandas missing value of an empty cell

\* Keys: "" is the empty string, the others are non-empty keys.
HeaderKeys == {None, "", "hdrkey"}
DefaultKeys == {"", "envkey"}

\* ------------------------------------------------------------- responses
\* What requests.get produces: a transport exception, or a response with a
\* status code and a body.  Bodies: "absent" (zero bytes, res.json()
\* raises), "empty" (JSON that is falsy: {}, [], null), and three truthy
\* payload shapes: "comments" (data.comments non-empty), "nocomments"
\* (a dict without comments), "malformed" (truthy JSON on which
\* data.get("data", {}).get(...) raises, e.g. a list or {"data": null}).
Resp(e, s, b) == [err |-> e, status |-> s, body |-> b]

TransportErrors == {Resp("conn", 0, "absent"), Resp("timeout", 0, "absent")}
ErrorStatuses == {Resp("none", s, "absent") : s \in {404, 429, 500}}
OkBodies == {"absent", "empty", "comments", "nocomments", "malformed"}
OkResponses == {Resp("none", 200, b) : b \in OkBodies}
RedirectResponses == {Resp("none", 302, "comments")}
Responses == TransportErrors \cup ErrorStatuses \cup OkResponses \cup RedirectResponses

\* requests.Response.raise_for_status: raises HTTPError for 4xx and 5xx.
raise_for_status(r) == r.status >= 400 /\ r.status < 600

\* bool(data) for the parsed body
Truthy(b) == b \in {"comments", "nocomments", "malformed"}

\* ----------------------------------------------------------------- state
VARIABLES
  now,             \* the wall clock, time.time()
  last_call_time,  \* the module global of the rate limiter
  RAPIDAPI_KEY,    \* os.getenv("RAPIDAPI_KEY", "")
  jsonErrCaught,   \* the installed requests raises a RequestException
                   \* subclass from res.json() (>= 2.27) or a ValueError
  pc,              \* position of each worker
  op,              \* the route a worker serves
  hdr,             \* x-rapidapi-key header of the worker's request
  key_to_use,      \* key sent with the provider calls of the current fetch
  attempt,         \* loop index of fetch_from_rapidapi
  rl_now,          \* local 'now' of rate_limit
  wake,            \* time at which a sleeping worker resumes
  resp,            \* what requests.get produced last in the current fetch
  calls,           \* provider calls issued by the current fetch
  acquires,        \* rate_limit acquisitions completed by the current fetch
  backoffs,        \* 429 waits slept by the current fetch, in order
  outcome,         \* result of the worker's current/last fetch
  upload,          \* the uploaded table: does it parse, has it the column
  rows,            \* cells of the key column consumed so far
  results,         \* the results list of the bulk route
  delays,          \* inter-row time.sleep(1.5) calls completed
  rowkey,          \* username / clean_url of the row being processed
  lastCall,        \* time of the latest provider call of the bulk route
  rowGap,          \* time from the last provider call of the earlier rows
                   \* to the first provider call of the current row
  batchOut,        \* what the bulk route returned / raised
  prevReturn,      \* time of the latest return of rate_limit (-1: none)
  lastGap,         \* distance between the two latest returns (-1: none)
  comments,        \* the comment records handed to the aggregation
  summary,         \* what the aggregation made of them
  post_url,        \* the post URL handed to clean_linkedin_url
  cleaned          \* the results of applying clean_linkedin_url, in order

vars == <<now, last_call_time, RAPIDAPI_KEY, jsonErrCaught, pc, op, hdr,
          key_to_use, attempt, rl_now, wake, resp, calls, acquires,
          backoffs, outcome, upload, rows, results, delays, rowkey,
          lastCall, rowGap, batchOut, prevReturn, lastGap, comments,
          summary, post_url, cleaned>>

build == <<RAPIDAPI_KEY, jsonErrCaught>>
limiter == <<last_call_time, prevReturn, lastGap>>
batch == <<upload, rows, results, delays, rowkey, batchOut>>
gaps == <<lastCall, rowGap>>
pure == <<comments, summary, post_url, cleaned>>

NoResp == Resp("none", 0, "none")
NoOutcome == [tag |-> "none", code |-> 0, payload |-> "none"]
Success(b) == [tag |-> "Success", code |-> 200, payload |-> b]
\* raise HTTPException(status_code=code, ...)
Failure(code) == [tag |-> "Failure", code |-> code, payload |-> "none"]
\* an exception that is not an HTTPException leaves fetch_from_rapidapi
Uncaught == [tag |-> "Uncaught", code |-> 0, payload |-> "none"]

\* what a bulk route hands back: the dict of line 250, an HTTPException
\* raised before the loop, or an exception that escaped the loop
NoBatchOut == [tag |-> "none", success |-> FALSE, count |-> 0]
\* mutant of BatchResult: success only if no item carries an error
BatchResultIfAllOk(res) ==
  [tag |-> "BatchResult", success |-> \A i \in DOMAIN res : res[i].field # "error",
   count |-> Len(res), results |-> res]

BatchResult(res) ==
  [tag |-> "BatchResult", success |-> TRUE, count |-> Len(res), results |-> res]
BatchError(t) == [tag |-> t, success |-> FALSE, count |-> 0]

MissingCredential == 400
EmptyResponse == 502
UpstreamError == 500
QuotaExceeded == 429

\* Python's 'a or b' on strings / None
\* mutant of Or: the default wins over the caller's value
OrDefaultFirst(a, b) == IF b = None \/ b = "" THEN a ELSE b

Or(a, b) == IF a = None \/ a = "" THEN b ELSE a

\* mutant of Pow2: the wait grows linearly (attempt + 1)
Pow2Linear(n) == n + 1

\* 2 ** attempt, line 87
Pow2(n) == IF n = 0 THEN 1 ELSE IF n = 1 THEN 2 ELSE IF n = 2 THEN 4 ELSE 8

\* the state of the process when the first request arrives
InitProgram ==
  /\ now = StartTime
  /\ last_call_time = 0
  /\ RAPIDAPI_KEY \in DefaultKeys
  /\ jsonErrCaught \in BOOLEAN
  /\ pc = [w \in Workers |-> "idle"]
  /\ op = [w \in Workers |-> "none"]
  /\ hdr = [w \in Workers |-> None]
  /\ key_to_use = [w \in Workers |-> ""]
  /\ attempt = [w \in Workers |-> 0]
  /\ rl_now = [w \in Workers |-> 0]
  /\ wake = [w \in Workers |-> 0]
  /\ resp = [w \in Workers |-> NoResp]
  /\ calls = [w \in Workers |-> 0]
  /\ acquires = [w \in Workers |-> 0]
  /\ backoffs = [w \in Workers |-> <<>>]
  /\ outcome = [w \in Workers |-> NoOutcome]
  /\ upload = [parses |-> TRUE, hasColumn |-> TRUE]
  /\ rows = <<>>
  /\ results = <<>>
  /\ delays = 0
  /\ rowkey = <<>>
  /\ lastCall = -1
  /\ rowGap = -1
  /\ batchOut = NoBatchOut
  /\ prevReturn = -1
  /\ lastGap = -1

NoSummary == [tag |-> "none"]

Init ==
  /\ InitProgram
  /\ comments = <<>>
  /\ summary = NoSummary
  /\ post_url = <<>>
  /\ cleaned = <<>>

\* ---------------------------------------------------------- rate limiter
\* rate_limit, line 50: now = time.time()
RateLimitNow(w) ==
  /\ pc[w] = "rl_now"
  /\ rl_now' = [rl_now EXCEPT ![w] = now]
  /\ pc' = [pc EXCEPT ![w] = "rl_elapsed"]
  /\ UNCHANGED <<now, build, pure, limiter, batch, gaps, op, hdr, key_to_use, attempt,
                 wake, resp, calls, acquires, backoffs, outcome>>

\* mutant of RateLimitElapsed: the deficit is not slept
RateLimitElapsedNoSleep(w, min_interval) ==
  /\ pc[w] = "rl_elapsed"
  /\ pc' = [pc EXCEPT ![w] = "rl_write"]
  /\ UNCHANGED <<now, build, pure, last_call_time, prevReturn, lastGap, batch, gaps, op,
                 hdr, key_to_use, attempt, rl_now, wake, resp, calls, acquires,
                 backoffs, outcome>>

\* rate_limit, lines 51-55: elapsed = now - last_call_time; sleep the deficit
RateLimitElapsed(w, min_interval) ==
  /\ pc[w] = "rl_elapsed"
  /\ LET elapsed == rl_now[w] - last_call_time
     IN IF elapsed < min_interval
        THEN /\ wake' = [wake EXCEPT ![w] = now + (min_interval - elapsed)]
             /\ pc' = [pc EXCEPT ![w] = "rl_sleep"]
        ELSE /\ pc' = [pc EXCEPT ![w] = "rl_write"]
             /\ UNCHANGED wake
  /\ UNCHANGED <<now, build, pure, last_call_time, prevReturn, lastGap, batch, gaps, op,
                 hdr, key_to_use, attempt, rl_now, resp, calls, acquires,
                 backoffs, outcome>>

\* time.sleep(sleep_for) returns
RateLimitWake(w) ==
  /\ pc[w] = "rl_sleep"
  /\ now >= wake[w]
  /\ pc' = [pc EXCEPT ![w] = "rl_write"]
  /\ UNCHANGED <<now, build, pure, limiter, batch, gaps, op, hdr, key_to_use, attempt,
                 rl_now, wake, resp, calls, acquires, backoffs,
                 outcome>>

\* rate_limit, line 56: last_call_time = time.time(); rate_limit returns
RateLimitWrite(w) ==
  /\ pc[w] = "rl_write"
  /\ last_call_time' = now
  /\ lastGap' = IF prevReturn = -1 THEN -1 ELSE now - prevReturn
  /\ prevReturn' = now
  /\ acquires' = [acquires EXCEPT ![w] = @ + 1]
  /\ pc' = [pc EXCEPT ![w] = "get"]
  /\ UNCHANGED <<now, build, pure, batch, gaps, op, hdr, key_to_use, attempt,
                 rl_now, wake, resp, calls, backoffs, outcome>>

rate_limit(w) ==
  \/ RateLimitNow(w)
  \/ RateLimitElapsed(w, MIN_INTERVAL)
  \/ RateLimitWake(w)
  \/ RateLimitWrite(w)

\* ---------------------------------------------------------- fetch client
\* mutant of EnterFetch: the 'if not key_to_use' check of line 70 is missing
EnterFetchNoKeyCheck(w, rapidapi_key) ==
  /\ key_to_use' = [key_to_use EXCEPT ![w] = Or(rapidapi_key, RAPIDAPI_KEY)]
  /\ attempt' = [attempt EXCEPT ![w] = 0]
  /\ resp' = [resp EXCEPT ![w] = NoResp]
  /\ calls' = [calls EXCEPT ![w] = 0]
  /\ acquires' = [acquires EXCEPT ![w] = 0]
  /\ backoffs' = [backoffs EXCEPT ![w] = <<>>]
  /\ outcome' = [outcome EXCEPT ![w] = NoOutcome]
  /\ pc' = [pc EXCEPT ![w] = "rl_now"]

\* fetch_from_rapidapi, lines 69-78, entered with the caller's key argument
EnterFetch(w, rapidapi_key) ==
  LET k == Or(rapidapi_key, RAPIDAPI_KEY)
  IN /\ key_to_use' = [key_to_use EXCEPT ![w] = k]
     /\ attempt' = [attempt EXCEPT ![w] = 0]
     /\ resp' = [resp EXCEPT ![w] = NoResp]
     /\ calls' = [calls EXCEPT ![w] = 0]
     /\ acquires' = [acquires EXCEPT ![w] = 0]
     /\ backoffs' = [backoffs EXCEPT ![w] = <<>>]
     /\ IF k = ""
        THEN /\ outcome' = [outcome EXCEPT ![w] = Failure(MissingCredential)]
             /\ pc' = [pc EXCEPT ![w] = "fetch_ret"]
        ELSE /\ outcome' = [outcome EXCEPT ![w] = NoOutcome]
             /\ pc' = [pc EXCEPT ![w] = "rl_now"]

\* A single-item route (get_profile and the like) receives a request.
StartFetch(w) ==
  /\ pc[w] = "idle"
  /\ \E h \in HeaderKeys :
       /\ hdr' = [hdr EXCEPT ![w] = h]
       /\ EnterFetch(w, h)
  /\ op' = [op EXCEPT ![w] = "fetch"]
  /\ UNCHANGED <<now, build, pure, limiter, batch, gaps, rl_now, wake>>

\* mutant of OnRequestException: after the last attempt an earlier 429
\* makes the error the quota error
OnRequestExceptionQuotaIfAny429(w) ==
  IF attempt[w] = MAX_ATTEMPTS - 1
  THEN /\ outcome' = [outcome EXCEPT ![w] =
                        IF backoffs[w] # <<>> THEN Failure(QuotaExceeded)
                        ELSE Failure(UpstreamError)]
       /\ pc' = [pc EXCEPT ![w] = "fetch_ret"]
       /\ UNCHANGED attempt
  ELSE /\ attempt' = [attempt EXCEPT ![w] = @ + 1]
       /\ pc' = [pc EXCEPT ![w] = "rl_now"]
       /\ UNCHANGED outcome

\* mutant of OnRequestException: the last attempt is tested as attempt == 3
OnRequestExceptionOffByOne(w) ==
  IF attempt[w] = MAX_ATTEMPTS
  THEN /\ outcome' = [outcome EXCEPT ![w] = Failure(UpstreamError)]
       /\ pc' = [pc EXCEPT ![w] = "fetch_ret"]
       /\ UNCHANGED attempt
  ELSE /\ attempt' = [attempt EXCEPT ![w] = @ + 1]
       /\ pc' = [pc EXCEPT ![w] = "rl_now"]
       /\ UNCHANGED outcome

\* the except clause, lines 98-101
OnRequestException(w) ==
  IF attempt[w] = MAX_ATTEMPTS - 1
  THEN /\ outcome' = [outcome EXCEPT ![w] = Failure(UpstreamError)]
       /\ pc' = [pc EXCEPT ![w] = "fetch_ret"]
       /\ UNCHANGED attempt
  ELSE /\ attempt' = [attempt EXCEPT ![w] = @ + 1]
       /\ pc' = [pc EXCEPT ![w] = "rl_now"]
       /\ UNCHANGED outcome

\* return / raise HTTPException out of fetch_from_rapidapi
Leave(w, out) ==
  /\ outcome' = [outcome EXCEPT ![w] = out]
  /\ pc' = [pc EXCEPT ![w] = "fetch_ret"]
  /\ UNCHANGED attempt

\* lines 84-101: requests.get returns r or raises, the result is classified
Classify(w, r) ==
  IF r.err # "none"
  THEN OnRequestException(w) /\ UNCHANGED <<wake, backoffs>>
  ELSE IF r.status = 429
  THEN /\ backoffs' = [backoffs EXCEPT ![w] = Append(@, 10 * Pow2(attempt[w]))]
       /\ wake' = [wake EXCEPT ![w] = now + 10 * Pow2(attempt[w])]
       /\ pc' = [pc EXCEPT ![w] = "backoff"]
       /\ UNCHANGED <<attempt, outcome>>
  ELSE IF raise_for_status(r)
  THEN OnRequestException(w) /\ UNCHANGED <<wake, backoffs>>
  ELSE IF r.body = "absent"
  THEN /\ IF jsonErrCaught THEN OnRequestException(w) ELSE Leave(w, Uncaught)
       /\ UNCHANGED <<wake, backoffs>>
  ELSE IF ~Truthy(r.body)
  THEN Leave(w, Failure(EmptyResponse)) /\ UNCHANGED <<wake, backoffs>>
  ELSE Leave(w, Success(r.body)) /\ UNCHANGED <<wake, backoffs>>

\* line 84 onwards: one provider call and the handling of its result
Get(w, provider) ==
  /\ pc[w] = "get"
  /\ calls' = [calls EXCEPT ![w] = @ + 1]
  /\ \E r \in provider :
       /\ resp' = [resp EXCEPT ![w] = r]
       /\ Classify(w, r)
  /\ IF op[w] = "fetch"
     THEN UNCHANGED gaps
     ELSE /\ lastCall' = now
          /\ rowGap' = IF calls[w] = 0 /\ lastCall # -1
                       THEN now - lastCall ELSE rowGap
  /\ UNCHANGED <<now, build, pure, limiter, batch, op, hdr, key_to_use, rl_now,
                 acquires>>

\* mutant of BackoffWake: the retry after a 429 goes to the GET directly
BackoffWakeSkipsLimiter(w) ==
  /\ pc[w] = "backoff"
  /\ now >= wake[w]
  /\ IF attempt[w] = MAX_ATTEMPTS - 1
     THEN /\ outcome' = [outcome EXCEPT ![w] = Failure(QuotaExceeded)]
          /\ pc' = [pc EXCEPT ![w] = "fetch_ret"]
          /\ UNCHANGED attempt
     ELSE /\ attempt' = [attempt EXCEPT ![w] = @ + 1]
          /\ pc' = [pc EXCEPT ![w] = "get"]
          /\ UNCHANGED outcome
  /\ UNCHANGED <<now, build, pure, limiter, batch, gaps, op, hdr, key_to_use, rl_now,
                 wake, resp, calls, acquires, backoffs>>

\* lines 89-90 and 103: time.sleep(wait) returns; continue, or the loop is
\* exhausted and the quota error is raised
BackoffWake(w) ==
  /\ pc[w] = "backoff"
  /\ now >= wake[w]
  /\ IF attempt[w] = MAX_ATTEMPTS - 1
     THEN /\ outcome' = [outcome EXCEPT ![w] = Failure(QuotaExceeded)]
          /\ pc' = [pc EXCEPT ![w] = "fetch_ret"]
          /\ UNCHANGED attempt
     ELSE /\ attempt' = [attempt EXCEPT ![w] = @ + 1]
          /\ pc' = [pc EXCEPT ![w] = "rl_now"]
          /\ UNCHANGED outcome
  /\ UNCHANGED <<now, build, pure, limiter, batch, gaps, op, hdr, key_to_use, rl_now,
                 wake, resp, calls, acquires, backoffs>>

\* a single-item route returns the fetch result to the framework
ReturnFetch(w) ==
  /\ pc[w] = "fetch_ret"
  /\ op[w] = "fetch"
  /\ pc' = [pc EXCEPT ![w] = "done"]
  /\ UNCHANGED <<now, build, pure, limiter, batch, gaps, op, hdr, key_to_use, attempt,
                 rl_now, wake, resp, calls, acquires, backoffs,
                 outcome>>

fetch_from_rapidapi(w, provider) ==
  \/ rate_limit(w)
  \/ Get(w, provider)
  \/ BackoffWake(w)

\* ---------------------------------------------------------- bulk routes
\* Cells of the key column as pandas.read_csv delivers them: an empty cell
\* is the float NaN, every other cell is its text (a sequence of
\* characters); read_csv never delivers the empty string.
Cells == {NaN, <<" ">>, <<" ", "a">>, <<"?", "q">>}

\* str(value)
Str(c) == IF c = NaN THEN <<"n", "a", "n">> ELSE c

RECURSIVE LStrip(_)
LStrip(t) == IF t # <<>> /\ Head(t) = " " THEN LStrip(Tail(t)) ELSE t

RECURSIVE RStrip(_)
RStrip(t) == IF t # <<>> /\ t[Len(t)] = " " THEN RStrip(SubSeq(t, 1, Len(t) - 1)) ELSE t

\* str.strip()
Strip(t) == RStrip(LStrip(t))

RECURSIVE Find(_, _, _)
\* index of the first ch in t at or after position i, 0 if there is none
Find(t, ch, i) == IF i > Len(t) THEN 0 ELSE IF t[i] = ch THEN i ELSE Find(t, ch, i + 1)

\* the characters of a scheme (scheme_chars) among the characters used here
SchemeChars == {"a", "n", "q", "s", "w"}

\* the schemes of urllib.parse.uses_netloc that these characters spell
UsesNetloc == {<<"w", "s">>, <<"w", "s", "s">>}

RECURSIVE FindAny(_, _, _)
\* index of the first character of chs in t at or after position i, 0 if
\* there is none
FindAny(t, chs, i) ==
  IF i > Len(t) THEN 0 ELSE IF t[i] \in chs THEN i ELSE FindAny(t, chs, i + 1)

\* t[:i] and t[i+1:] of a split at position i; no split for i = 0
Before(t, i) == IF i = 0 THEN t ELSE SubSeq(t, 1, i - 1)
After(t, i) == IF i = 0 THEN <<>> ELSE SubSeq(t, i + 1, Len(t))

\* urllib.parse.urlparse (CPython 3.11) on text without ";", brackets and
\* control characters: leading blanks go, a scheme is cut at the first
\* ":", a netloc follows "//" up to the first of "/?#", the fragment is
\* cut at the first "#", the query at the first "?"
urlparse(url) ==
  LET u0 == LStrip(url)
      c == Find(u0, ":", 1)
      hasScheme == c > 1 /\ \A k \in 1..(c - 1) : u0[k] \in SchemeChars
      scheme == IF hasScheme THEN Before(u0, c) ELSE <<>>
      u1 == IF hasScheme THEN After(u0, c) ELSE u0
      hasNetloc == Len(u1) >= 2 /\ u1[1] = "/" /\ u1[2] = "/"
      d == IF hasNetloc THEN FindAny(u1, {"/", "?", "#"}, 3) ELSE 0
      netloc == IF ~hasNetloc THEN <<>>
                ELSE IF d = 0 THEN SubSeq(u1, 3, Len(u1)) ELSE SubSeq(u1, 3, d - 1)
      u2 == IF ~hasNetloc THEN u1
            ELSE IF d = 0 THEN <<>> ELSE SubSeq(u1, d, Len(u1))
      f == Find(u2, "#", 1)
      u3 == Before(u2, f)
      q == Find(u3, "?", 1)
  IN [scheme |-> scheme, netloc |-> netloc, path |-> Before(u3, q),
      query |-> After(u3, q), fragment |-> After(u2, f)]

\* urllib.parse.urlunparse (CPython 3.11) of a result without params
urlunparse(p) ==
  LET slashes == Len(p.path) >= 2 /\ p.path[1] = "/" /\ p.path[2] = "/"
      authority == p.netloc # <<>> \/ (p.scheme \in UsesNetloc /\ ~slashes)
      rooted == IF p.path # <<>> /\ p.path[1] # "/" THEN <<"/">> \o p.path ELSE p.path
      u1 == IF authority THEN <<"/", "/">> \o p.netloc \o rooted ELSE p.path
      u2 == IF p.scheme # <<>> THEN p.scheme \o <<":">> \o u1 ELSE u1
      u3 == IF p.query # <<>> THEN u2 \o <<"?">> \o p.query ELSE u2
  IN IF p.fragment # <<>> THEN u3 \o <<"#">> \o p.fragment ELSE u3

\* lines 62-64
clean_linkedin_url(url) == urlunparse([urlparse(url) EXCEPT !.query = <<>>])

Routes == {"profiles", "comments", "comment_analytics"}

\* the loop's key for a cell: lines 236, 301, 365
RowKey(route, c) ==
  IF route = "profiles" THEN Strip(Str(c)) ELSE clean_linkedin_url(Strip(Str(c)))

\* request.headers.get("x-rapidapi-key", RAPIDAPI_KEY)
HeaderGet(h, default) == IF h = None THEN default ELSE h

Item(k, f, code, payload) == [key |-> k, field |-> f, code |-> code, payload |-> payload]

\* mutant of StartBatch: the column check of lines 229-230 is missing
StartBatchNoColumnCheck(w) ==
  /\ pc[w] = "idle"
  /\ \E route \in Routes, parses \in BOOLEAN, hasColumn \in BOOLEAN, h \in HeaderKeys :
       /\ op' = [op EXCEPT ![w] = route]
       /\ hdr' = [hdr EXCEPT ![w] = h]
       /\ upload' = [parses |-> parses, hasColumn |-> hasColumn]
       /\ IF ~parses
          THEN /\ batchOut' = BatchError("InvalidInput")
               /\ pc' = [pc EXCEPT ![w] = "done"]
          ELSE /\ batchOut' = batchOut
               /\ pc' = [pc EXCEPT ![w] = "loop"]
  /\ UNCHANGED <<now, build, pure, limiter, gaps, rows, results, delays, rowkey,
                 key_to_use, attempt, rl_now, wake, resp, calls, acquires,
                 backoffs, outcome>>

\* lines 226-233: the upload is parsed and the key column is checked
StartBatch(w) ==
  /\ pc[w] = "idle"
  /\ \E route \in Routes, parses \in BOOLEAN, hasColumn \in BOOLEAN, h \in HeaderKeys :
       /\ op' = [op EXCEPT ![w] = route]
       /\ hdr' = [hdr EXCEPT ![w] = h]
       /\ upload' = [parses |-> parses, hasColumn |-> hasColumn]
       /\ IF ~parses
          THEN /\ batchOut' = BatchError("InvalidInput")
               /\ pc' = [pc EXCEPT ![w] = "done"]
          ELSE IF ~hasColumn
          THEN /\ batchOut' = BatchError("SchemaError")
               /\ pc' = [pc EXCEPT ![w] = "done"]
          ELSE /\ batchOut' = batchOut
               /\ pc' = [pc EXCEPT ![w] = "loop"]
  /\ UNCHANGED <<now, build, pure, limiter, gaps, rows, results, delays, rowkey,
                 key_to_use, attempt, rl_now, wake, resp, calls, acquires,
                 backoffs, outcome>>

\* mutant of NextRow: the inter-row delay is slept for a skipped row too
NextRowSkipSleeps(w) ==
  /\ pc[w] = "loop"
  /\ Len(rows) < MaxRows
  /\ \E c \in Cells :
       /\ rows' = Append(rows, c)
       /\ IF RowKey(op[w], c) = <<>>
          THEN /\ pc' = [pc EXCEPT ![w] = "delay"]
               /\ wake' = [wake EXCEPT ![w] = now + ROW_DELAY]
               /\ UNCHANGED <<rowkey, key_to_use, attempt, resp, calls,
                              acquires, backoffs, outcome>>
          ELSE /\ rowkey' = RowKey(op[w], c)
               /\ EnterFetch(w, HeaderGet(hdr[w], RAPIDAPI_KEY))
               /\ UNCHANGED wake
  /\ UNCHANGED <<now, build, pure, limiter, gaps, upload, results, delays, batchOut, op,
                 hdr, rl_now>>

\* lines 235-242: the loop takes the next cell; an empty key is skipped,
\* any other key starts a fetch
NextRow(w) ==
  /\ pc[w] = "loop"
  /\ Len(rows) < MaxRows
  /\ \E c \in Cells :
       /\ rows' = Append(rows, c)
       /\ IF RowKey(op[w], c) = <<>>
          THEN UNCHANGED <<pc, rowkey, key_to_use, attempt, resp, calls,
                          acquires, backoffs, outcome>>
          ELSE /\ rowkey' = RowKey(op[w], c)
               /\ EnterFetch(w, HeaderGet(hdr[w], RAPIDAPI_KEY))
  /\ UNCHANGED <<now, build, pure, limiter, gaps, upload, results, delays, batchOut, op,
                 hdr, rl_now, wake>>

\* lines 243-248 and 372-392: the fetch returned or raised inside the try
RowResult(w) ==
  /\ pc[w] = "fetch_ret"
  /\ op[w] \in Routes
  /\ LET out == outcome[w]
         sleep == /\ wake' = [wake EXCEPT ![w] = now + ROW_DELAY]
                  /\ pc' = [pc EXCEPT ![w] = "delay"]
                  /\ UNCHANGED batchOut
         escape == /\ batchOut' = BatchError("Uncaught")
                   /\ pc' = [pc EXCEPT ![w] = "done"]
                   /\ UNCHANGED <<results, wake>>
     IN IF out.tag = "Uncaught"
        THEN escape
        ELSE IF out.tag = "Failure"
        THEN /\ results' = Append(results, Item(rowkey, "error", out.code, "none"))
             /\ sleep
        ELSE IF op[w] # "comment_analytics"
        THEN /\ results' = Append(results, Item(rowkey, "data", 0, out.payload))
             /\ sleep
        ELSE IF out.payload = "malformed"
        THEN escape
        ELSE IF out.payload = "nocomments"
        THEN /\ results' = Append(results, Item(rowkey, "error", 0, "No comments found"))
             /\ pc' = [pc EXCEPT ![w] = "loop"]
             /\ UNCHANGED <<batchOut, wake>>
        ELSE /\ results' = Append(results, Item(rowkey, "summary", 0, out.payload))
             /\ sleep
  /\ UNCHANGED <<now, build, pure, limiter, gaps, upload, rows, delays, rowkey, op, hdr,
                 key_to_use, attempt, rl_now, resp, calls, acquires,
                 backoffs, outcome>>

\* time.sleep(1.5) returns, the loop continues
RowDelayWake(w) ==
  /\ pc[w] = "delay"
  /\ now >= wake[w]
  /\ delays' = delays + 1
  /\ pc' = [pc EXCEPT ![w] = "loop"]
  /\ UNCHANGED <<now, build, pure, limiter, gaps, upload, rows, results, rowkey, batchOut,
                 op, hdr, key_to_use, attempt, rl_now, wake, resp, calls,
                 acquires, backoffs, outcome>>

\* line 250: the column is exhausted, the route returns
EndBatch(w) ==
  /\ pc[w] = "loop"
  /\ batchOut' = BatchResult(results)
  /\ pc' = [pc EXCEPT ![w] = "done"]
  /\ UNCHANGED <<now, build, pure, limiter, gaps, upload, rows, results, delays, rowkey,
                 op, hdr, key_to_use, attempt, rl_now, wake, resp, calls,
                 acquires, backoffs, outcome>>

upload_csv(w) ==
  \/ StartBatch(w)
  \/ NextRow(w)
  \/ RowResult(w)
  \/ RowDelayWake(w)
  \/ EndBatch(w)

\* ----------------------------------------------------------------- clock
Waiting(w) == pc[w] \in {"rl_sleep", "backoff", "delay"} /\ wake[w] > now

Min(S) == CHOOSE x \in S : \A y \in S : x <= y

\* time passes up to the next moment a sleeping worker is due
Tick ==
  /\ \E w \in Workers : Waiting(w)
  /\ now' = Min({wake[w] : w \in {v \in Workers : Waiting(v)}})
  /\ UNCHANGED <<build, pure, limiter, batch, gaps, pc, op, hdr, key_to_use, attempt,
                 rl_now, wake, resp, calls, acquires, backoffs,
                 outcome>>

\* One worker serves one request: a single-item route.
Next ==
  \/ StartFetch(Loop)
  \/ fetch_from_rapidapi(Loop, Responses)
  \/ ReturnFetch(Loop)
  \/ Tick

Spec == Init /\ [][Next]_vars

\* One worker serves one bulk upload.
BatchResponses == {Resp("none", 429, "absent"), Resp("none", 200, "comments"),
                   Resp("none", 200, "nocomments"), Resp("none", 200, "malformed")}

NextBatch ==
  \/ upload_csv(Loop)
  \/ fetch_from_rapidapi(Loop, BatchResponses)
  \/ Tick

\* no response of BatchResponses makes res.json() raise
InitBatch == Init /\ jsonErrCaught

SpecBatch == InitBatch /\ [][NextBatch]_vars

\* Two thread-pool workers serve single-item routes at the same time.
ConcResponses == {Resp("none", 429, "absent"), Resp("none", 200, "comments")}

\* no default key: only requests that bring a key reach the provider
InitConc == Init /\ jsonErrCaught /\ RAPIDAPI_KEY = ""

NextConc ==
  \/ \E w \in Workers :
        \/ StartFetch(w)
        \/ fetch_from_rapidapi(w, ConcResponses)
        \/ ReturnFetch(w)
  \/ Tick

SpecConc == InitConc /\ [][NextConc]_vars

\* ---------------------------------------------------------- aggregation
MaxComments == 3      \* length of the comment lists enumerated in full
MaxTail == 2          \* comments that follow six comments of six authors
TOP_N == 5            \* most_common(5)

\* c.get("author", {}).get("name"): None when a key is absent
AuthorNames == {None, "", "A", "B"}

\* the "stats" object of a comment: <<>> without "total_reactions",
\* <<n>> with the count n
StatsObjects == {<<>>, <<0>>, <<2>>, <<4>>}

CommentRecord(name, stats) == [name |-> name, stats |-> stats]

CommentRecords == {CommentRecord(n, s) : n \in AuthorNames, s \in StatsObjects}

\* d.get("total_reactions", default)
DictGet(d, default) == IF d = <<>> THEN default ELSE d[1]

\* line 183: the names that are truthy, in input order
authors(cs) ==
  SelectSeq([i \in DOMAIN cs |-> cs[i].name], LAMBDA n : n # None /\ n # "")

\* mutant of reactions: comments without an author name are left out
reactionsOfNamed(cs) ==
  LET named == SelectSeq(cs, LAMBDA c : c.name # None /\ c.name # "")
  IN [i \in DOMAIN named |-> DictGet(named[i].stats, 0)]

\* line 184: one count per comment, 0 when the comment has none
reactions(cs) == [i \in DOMAIN cs |-> DictGet(cs[i].stats, 0)]

RECURSIVE Sum(_)
Sum(data) == IF data = <<>> THEN 0 ELSE Head(data) + Sum(Tail(data))

RECURSIVE Gcd(_, _)
Gcd(a, b) == IF b = 0 THEN a ELSE Gcd(b, a % b)

\* statistics.mean: the exact quotient sum(data)/len(data), written as
\* the fraction in lowest terms (the conversion of the quotient to int
\* or float at the end is left out)
mean(data) ==
  LET g == Gcd(Len(data), Sum(data))
  IN [num |-> Sum(data) \div g, den |-> Len(data) \div g]

RECURSIVE Counter(_)
\* collections.Counter: the counts of the elements, kept in the order
\* in which the elements first occur
Counter(a) ==
  IF a = <<>> THEN <<>>
  ELSE LET c == Counter(SubSeq(a, 1, Len(a) - 1))
           x == a[Len(a)]
       IN IF \E i \in DOMAIN c : c[i][1] = x
          THEN [i \in DOMAIN c |-> IF c[i][1] = x THEN <<x, c[i][2] + 1>> ELSE c[i]]
          ELSE Append(c, <<x, 1>>)

\* one step of the stable sort: e, which came later than every element
\* of s, goes behind the elements whose count is not smaller
InsertByCount(e, s) ==
  LET k == Cardinality({i \in DOMAIN s : s[i][2] >= e[2]})
  IN SubSeq(s, 1, k) \o <<e>> \o SubSeq(s, k + 1, Len(s))

RECURSIVE SortedByCount(_)
\* sorted(counter.items(), key=count, reverse=True), which is stable
SortedByCount(c) ==
  IF c = <<>> THEN <<>>
  ELSE InsertByCount(c[Len(c)], SortedByCount(SubSeq(c, 1, Len(c) - 1)))

\* Counter.most_common(n) is heapq.nlargest(n, items, key=count), which
\* equals sorted(items, key=count, reverse=True)[:n]
most_common(c, n) ==
  LET s == SortedByCount(c)
  IN SubSeq(s, 1, IF Len(s) < n THEN Len(s) ELSE n)

NoCommentsFound == [success |-> FALSE, error |-> "No comments found"]

\* lines 179-194 (and 372-386): what the route makes of the comment list
summary_of(cs) ==
  IF cs = <<>>
  THEN NoCommentsFound
  ELSE [success |-> TRUE,
        total_comments |-> Len(cs),
        unique_commenters |-> Cardinality({authors(cs)[i] : i \in DOMAIN authors(cs)}),
        average_reactions |-> IF reactions(cs) # <<>> THEN mean(reactions(cs))
                              ELSE [num |-> 0, den |-> 1],
        top_commenters |-> most_common(Counter(authors(cs)), TOP_N)]

\* comment lists: every list of at most MaxComments records, and lists
\* of six comments by six authors followed by at most MaxTail comments
\* of theirs
SixAuthors == <<"A", "B", "C", "D", "E", "F">>

ShortLists == UNION {[1..n -> CommentRecords] : n \in 0..MaxComments}

Rotated(k) == [i \in 1..6 |-> CommentRecord(SixAuthors[((i + k) % 6) + 1], <<2>>)]

LongLists ==
  {Rotated(k) \o t : k \in 0..5,
                     t \in UNION {[1..n -> {CommentRecord(SixAuthors[j], <<>>) : j \in 1..6}]
                                  : n \in 0..MaxTail}}

Summarize ==
  /\ summary = NoSummary
  /\ summary' = summary_of(comments)
  /\ UNCHANGED <<now, build, limiter, batch, gaps, pc, op, hdr, key_to_use,
                 attempt, rl_now, wake, resp, calls, acquires, backoffs,
                 outcome, comments, post_url, cleaned>>

InitAgg ==
  /\ InitProgram
  /\ jsonErrCaught /\ RAPIDAPI_KEY = ""
  /\ comments \in ShortLists \cup LongLists
  /\ summary = NoSummary
  /\ post_url = <<>>
  /\ cleaned = <<>>

NextAgg == Summarize

SpecAgg == InitAgg /\ [][NextAgg]_vars

\* ---------------------------------------------------------- URL cleaning
MaxUrlLen == 5        \* characters of a post URL

UrlChars == {"w", "s", ":", "/", "?", "#"}

Urls == UNION {[1..n -> UrlChars] : n \in 0..MaxUrlLen}

\* the route cleans the URL it was given; a client that sends the result
\* back has it cleaned again
Clean ==
  /\ Len(cleaned) < 2
  /\ cleaned' = Append(cleaned, clean_linkedin_url(IF cleaned = <<>> THEN post_url
                                                   ELSE cleaned[Len(cleaned)]))
  /\ UNCHANGED <<now, build, limiter, batch, gaps, pc, op, hdr, key_to_use,
                 attempt, rl_now, wake, resp, calls, acquires, backoffs,
                 outcome, comments, summary, post_url>>

InitUrl ==
  /\ InitProgram
  /\ jsonErrCaught /\ RAPIDAPI_KEY = ""
  /\ comments = <<>>
  /\ summary = NoSummary
  /\ post_url \in Urls
  /\ cleaned = <<>>

NextUrl == Clean

SpecUrl == InitUrl /\ [][NextUrl]_vars

\* ================================================================ claims
Ended(w) == pc[w] \in {"fetch_ret", "done"}

\* the worker is in attempt number n (zero-based) and has not yet called
\* the provider in it
InAttempt(w, n) ==
  attempt[w] = n /\ pc[w] \in {"rl_now", "rl_elapsed", "rl_sleep", "rl_write", "get"}

\* C1: any two returns of rate_limit, by whichever callers, are at least
\* min_interval apart.
C1_ReturnsApart == lastGap = -1 \/ lastGap >= MIN_INTERVAL

\* C2: a fetch whose provider response is HTTP 404 has ended with
\* Failure(NotFound) after exactly one provider call.
C2_NotFoundAfterOneCall ==
  resp[Loop].status = 404 =>
    Ended(Loop) /\ calls[Loop] = 1 /\ outcome[Loop] = Failure(404)

\* C3: a fetch that received HTTP 429 on three attempts in a row has made
\* exactly 3 provider calls, has slept the backoff delays 1, 2, 4 (in
\* tenths: 10, 20, 40), and ends with Failure(QuotaExceeded).
C3_QuotaAfterThree ==
  Len(backoffs[Loop]) = 3 =>
    /\ backoffs[Loop] = <<10, 20, 40>>
    /\ calls[Loop] = 3
    /\ pc[Loop] \in {"backoff", "fetch_ret", "done"}
    /\ Ended(Loop) => outcome[Loop] = Failure(QuotaExceeded)

C3_Witness ==
  /\ pc[Loop] = "done"
  /\ Len(backoffs[Loop]) = 3
  /\ outcome[Loop] = Failure(QuotaExceeded)

\* C4: a bulk route never ends with a row's failure escaping the loop; the
\* only batch-level errors are an unparseable upload and a missing column,
\* raised before the first row is read.
C4_RowFailureNeverAborts ==
  /\ batchOut.tag \in {"none", "BatchResult", "SchemaError", "InvalidInput"}
  /\ batchOut.tag \in {"SchemaError", "InvalidInput"} => rows = <<>>

\* the text of a cell of the uploaded table: an empty cell has no text
CellText(c) == IF c = NaN THEN <<>> ELSE c

\* the key a route derives from a cell's text: trimmed, and for the
\* post_url routes with the query removed
KeyText(route, c) ==
  IF route = "profiles" THEN Strip(CellText(c)) ELSE clean_linkedin_url(Strip(CellText(c)))

RECURSIVE NonEmptyKeys(_, _)
\* the keys of the rows whose key is not empty, in input order
NonEmptyKeys(route, cs) ==
  IF cs = <<>> THEN <<>>
  ELSE IF KeyText(route, Head(cs)) = <<>> THEN NonEmptyKeys(route, Tail(cs))
  ELSE <<KeyText(route, Head(cs))>> \o NonEmptyKeys(route, Tail(cs))

\* C5: the result of a bulk route has exactly one item for each row whose
\* trimmed key value is not empty, in input order, and none for the others.
C5_SkipsExactlyEmptyKeys ==
  batchOut.tag = "BatchResult" =>
    [i \in 1..Len(results) |-> results[i].key] = NonEmptyKeys(op[Loop], rows)

\* C6: a bulk route whose table lacks the key column ends with SchemaError
\* without any provider call and without acquiring the rate limiter.
C6_SchemaErrorBeforeNetwork ==
  (op[Loop] \in Routes /\ upload.parses /\ ~upload.hasColumn) =>
    /\ batchOut.tag = "SchemaError"
    /\ pc[Loop] = "done"
    /\ rows = <<>> /\ results = <<>>
    /\ calls[Loop] = 0 /\ lastCall = -1
    /\ acquires[Loop] = 0 /\ prevReturn = -1
    /\ last_call_time = 0

C6_Witness ==
  /\ op[Loop] \in Routes /\ upload.parses /\ ~upload.hasColumn
  /\ batchOut.tag = "SchemaError"

\* C7: a fetch whose request key is empty while there is no default key
\* fails at once with MissingCredential: no provider call, no retry, no
\* rate limiter acquisition, last_call_time unchanged.
C7_MissingCredentialImmediate ==
  (op[Loop] = "fetch" /\ hdr[Loop] \in {None, ""} /\ RAPIDAPI_KEY = "") =>
    /\ Ended(Loop)
    /\ outcome[Loop] = Failure(MissingCredential)
    /\ calls[Loop] = 0 /\ attempt[Loop] = 0
    /\ acquires[Loop] = 0 /\ prevReturn = -1
    /\ last_call_time = 0

C7_Witness ==
  /\ op[Loop] = "fetch" /\ hdr[Loop] = "" /\ RAPIDAPI_KEY = ""
  /\ pc[Loop] = "done"
  /\ outcome[Loop] = Failure(MissingCredential)

\* C8: whenever the bulk loop is about to take the next row (or has
\* returned), every item appended so far was followed by the 1.5 delay, and
\* the provider calls of consecutive processed rows are at least that delay
\* apart.
C8_DelayAfterEveryRow ==
  /\ (pc[Loop] = "loop" \/ batchOut.tag = "BatchResult") => delays = Len(results)
  /\ rowGap = -1 \/ rowGap >= ROW_DELAY

\* network-class results as the claim lists them: a transport error or any
\* non-2xx status other than 404 and 429
NetworkClassClaimed(r) ==
  \/ r.err \in {"conn", "timeout"}
  \/ r.err = "none" /\ r.status # 0 /\ ~(r.status \in 200..299) /\ r.status \notin {404, 429}

\* network-class results that the code treats so among those: a transport
\* error or a 4xx/5xx status other than 404 and 429
NetworkClassAmended(r) ==
  \/ r.err \in {"conn", "timeout"}
  \/ r.err = "none" /\ r.status \in 400..599 /\ r.status \notin {404, 429}

RetriedThenUpstream(w) ==
  /\ calls[w] <= 3
  /\ calls[w] < 3 => InAttempt(w, calls[w])
  /\ calls[w] = 3 => Ended(w) /\ outcome[w] = Failure(UpstreamError)

\* C9 (as claimed): after a network-class result, any non-2xx status other
\* than 404/429 included, the fetch is in its next attempt when that was
\* attempt 1 or 2, and has ended with Failure(UpstreamError) when it was
\* attempt 3; there is no 4th call.
C9_NetworkErrorRetried_Claimed ==
  NetworkClassClaimed(resp[Loop]) => RetriedThenUpstream(Loop)

\* C9 (amended): the same for a connection failure, a timeout, or a 4xx/5xx
\* status other than 404/429; no fetch makes a 4th provider call.
C9_NetworkErrorRetried ==
  /\ calls[Loop] <= 3
  /\ NetworkClassAmended(resp[Loop]) => RetriedThenUpstream(Loop)

C9_Witness ==
  /\ NetworkClassAmended(resp[Loop])
  /\ calls[Loop] = 3
  /\ pc[Loop] = "done"
  /\ outcome[Loop] = Failure(UpstreamError)

\* C10: after a 2xx response the fetch has ended: with
\* Failure(EmptyResponse) when the body is empty or absent, with
\* Success(parsed body) when it is not.
C10_EmptyOrSuccess ==
  (resp[Loop].err = "none" /\ resp[Loop].status \in 200..299) =>
    /\ Ended(Loop)
    /\ resp[Loop].body \in {"absent", "empty"} => outcome[Loop] = Failure(EmptyResponse)
    /\ Truthy(resp[Loop].body) => outcome[Loop] = Success(resp[Loop].body)

\* ---- C11
\* the reference reduction, stated over the positions of the comment list
Named(cs) == {i \in DOMAIN cs : cs[i].name # None /\ cs[i].name # ""}

NamesOf(cs) == {cs[i].name : i \in Named(cs)}

Occurrences(cs, n) == Cardinality({i \in DOMAIN cs : cs[i].name = n})

FirstOccurrence(cs, n) == Min({i \in DOMAIN cs : cs[i].name = n})

RanksBefore(cs, a, b) ==
  \/ Occurrences(cs, a) > Occurrences(cs, b)
  \/ /\ Occurrences(cs, a) = Occurrences(cs, b)
     /\ FirstOccurrence(cs, a) < FirstOccurrence(cs, b)

RECURSIVE ReactionsUpTo(_, _)
ReactionsUpTo(cs, n) ==
  IF n = 0 THEN 0
  ELSE ReactionsUpTo(cs, n - 1) + (IF cs[n].stats = <<>> THEN 0 ELSE cs[n].stats[1])

IsTopCommenters(cs, t) ==
  /\ Len(t) = IF Cardinality(NamesOf(cs)) < 5 THEN Cardinality(NamesOf(cs)) ELSE 5
  /\ \A i \in DOMAIN t : /\ t[i][1] \in NamesOf(cs)
                         /\ t[i][2] = Occurrences(cs, t[i][1])
  /\ \A i, j \in DOMAIN t : i < j => RanksBefore(cs, t[i][1], t[j][1])
  /\ \A n \in NamesOf(cs) \ {t[i][1] : i \in DOMAIN t} :
       \A i \in DOMAIN t : RanksBefore(cs, t[i][1], n)

\* C11: the aggregation equals the reference reduction for every comment
\* list: the empty list gives "No comments found"; otherwise
\* total_comments is the number of records, unique_commenters the number
\* of distinct names of the records that have one, average_reactions the
\* mean of the counts of all records with a missing count taken as 0,
\* and top_commenters the at most five names with the most occurrences,
\* in descending order of count, ties in order of first occurrence.
C11_AggregationIsReference ==
  summary # NoSummary =>
    IF comments = <<>>
    THEN summary = NoCommentsFound
    ELSE /\ summary.success
         /\ summary.total_comments = Len(comments)
         /\ summary.unique_commenters = Cardinality(NamesOf(comments))
         /\ summary.average_reactions.den > 0
         /\ summary.average_reactions.num * Len(comments)
              = summary.average_reactions.den * ReactionsUpTo(comments, Len(comments))
         /\ IsTopCommenters(comments, summary.top_commenters)

\* the example of the specification: [(A,2),(A,4),(B,0)]
C11_Witness ==
  /\ comments = <<CommentRecord("A", <<2>>), CommentRecord("A", <<4>>),
                  CommentRecord("B", <<0>>)>>
  /\ summary = [success |-> TRUE, total_comments |-> 3, unique_commenters |-> 2,
                average_reactions |-> [num |-> 2, den |-> 1],
                top_commenters |-> <<<<"A", 2>>, <<"B", 1>>>>]

\* ---- C12
\* C12: clean_linkedin_url is idempotent, and its result has an empty
\* query and the scheme, host and path of the URL it was given.
C12_CleanIdempotentQueryOnly ==
  /\ Len(cleaned) = 2 => cleaned[2] = cleaned[1]
  /\ Len(cleaned) >= 1 =>
       /\ urlparse(cleaned[1]).query = <<>>
       /\ urlparse(cleaned[1]).scheme = urlparse(post_url).scheme
       /\ urlparse(cleaned[1]).netloc = urlparse(post_url).netloc
       /\ urlparse(cleaned[1]).path = urlparse(post_url).path

\* ---- C13
\* C13: every BatchResult has success = true and a count equal to the
\* length of its results, which are the items the loop collected; also
\* when every row failed and when no row was processed.
C13_CountIsLengthSuccessTrue ==
  batchOut.tag = "BatchResult" =>
    /\ batchOut.success = TRUE
    /\ batchOut.count = Len(batchOut.results)
    /\ batchOut.results = results

\* a batch in which every row was processed and every fetch failed
C13_Witness ==
  /\ batchOut.tag = "BatchResult"
  /\ Len(rows) = MaxRows
  /\ batchOut.count = MaxRows
  /\ \A i \in DOMAIN batchOut.results : batchOut.results[i].field = "error"

\* ---- C14
\* the request brought a key in its x-rapidapi-key header
SuppliesKey(w) == hdr[w] # None /\ hdr[w] # ""

\* C14: the key a provider call is sent with is the request's own key
\* when the request supplies one and the default key otherwise; a
\* request that supplies a key never has a call sent with the default
\* key instead.
C14_RequestKeyOverridesDefault ==
  calls[Loop] > 0 =>
    /\ key_to_use[Loop] = IF SuppliesKey(Loop) THEN hdr[Loop] ELSE RAPIDAPI_KEY
    /\ SuppliesKey(Loop) => key_to_use[Loop] # RAPIDAPI_KEY

\* a bulk request with its own key, served by a process that has a
\* default key, has called the provider
C14_Witness ==
  /\ op[Loop] \in Routes
  /\ calls[Loop] > 0
  /\ hdr[Loop] = "hdrkey"
  /\ RAPIDAPI_KEY = "envkey"
  /\ key_to_use[Loop] = "hdrkey"

\* ---- C15
\* C15: within a fetch every GET is preceded in its attempt by exactly
\* one completed rate_limit: the acquisitions of the fetch number as many
\* as its GETs, or one more, and a GET is issued only with one more.
C15_OneAcquisitionPerGet ==
  /\ acquires[Loop] \in {calls[Loop], calls[Loop] + 1}
  /\ pc[Loop] = "get" => acquires[Loop] = calls[Loop] + 1
  /\ pc[Loop] \in {"rl_now", "rl_elapsed", "rl_sleep", "rl_write", "backoff"}
       => acquires[Loop] = calls[Loop]

\* three attempts, each with its acquisition and its GET
C15_Witness ==
  /\ Ended(Loop)
  /\ calls[Loop] = MAX_ATTEMPTS
  /\ acquires[Loop] = MAX_ATTEMPTS

\* ---- C16
Is2xx(r) == r.err = "none" /\ r.status \in 200..299

\* C16: whatever the provider answers, a fetch with a non-empty key makes
\* at most 3 provider calls, ends with Success or with Failure, and has
\* ended once it has received a 2xx response.
C16_OneOutcomeWithinThreeCalls ==
  /\ calls[Loop] <= MAX_ATTEMPTS
  /\ (Ended(Loop) /\ key_to_use[Loop] # "") => outcome[Loop].tag \in {"Success", "Failure"}
  /\ Is2xx(resp[Loop]) => Ended(Loop)

\* ---- C17
\* C17: with one caller, every return of rate_limit is at least
\* min_interval after the previous one, the first acquisition of the
\* process does not sleep, last_call_time is the time of the latest
\* return, and last_call_time never decreases.
C17_SingleCallerSpacing ==
  /\ [](/\ lastGap = -1 \/ lastGap >= MIN_INTERVAL
        /\ pc[Loop] = "rl_sleep" => prevReturn # -1
        /\ prevReturn # -1 => last_call_time = prevReturn
        /\ pc[Loop] = "get" => last_call_time = now)
  /\ [][last_call_time' >= last_call_time]_vars

\* the second acquisition of a fetch came right after a failed call and
\* has slept the whole interval
C17_Witness ==
  /\ pc[Loop] = "get"
  /\ acquires[Loop] = 2
  /\ lastGap = MIN_INTERVAL
  /\ last_call_time = now

\* ---- C18
\* C18: when the third attempt of a fetch ends it without a 2xx
\* response, the third response alone decides the failure: a 429 gives
\* QuotaExceeded, a network-class error gives UpstreamError, whatever
\* the first two attempts returned.
C18_ThirdAttemptDecides ==
  (Ended(Loop) /\ calls[Loop] = MAX_ATTEMPTS) =>
    /\ (resp[Loop].err = "none" /\ resp[Loop].status = 429)
         => outcome[Loop] = Failure(QuotaExceeded)
    /\ NetworkClassAmended(resp[Loop]) => outcome[Loop] = Failure(UpstreamError)

\* two 429s, then a network-class error on the third attempt
C18_Witness ==
  /\ Ended(Loop)
  /\ calls[Loop] = MAX_ATTEMPTS
  /\ backoffs[Loop] = <<10, 20>>
  /\ NetworkClassAmended(resp[Loop])
  /\ outcome[Loop] = Failure(UpstreamError)

\* ---- C19
\* the loop took a row and skipped it
SkipsRow ==
  /\ Len(rows') = Len(rows) + 1
  /\ RowKey(op[Loop], rows'[Len(rows')]) = <<>>

\* C19: skipping a row starts no fetch, acquires nothing, sleeps no
\* inter-row delay, and leaves the results and last_call_time as they
\* were.
C19_SkipHasNoEffect ==
  [][SkipsRow =>
       /\ pc'[Loop] = "loop"
       /\ UNCHANGED <<results, last_call_time, prevReturn, calls, acquires,
                      delays, wake, now, outcome>>]_vars

\* one row was processed, the next one was skipped
C19_Witness ==
  /\ pc[Loop] = "loop"
  /\ Len(rows) = 2
  /\ RowKey(op[Loop], rows[2]) = <<>>
  /\ Len(results) = 1
  /\ delays = 1
  /\ acquires[Loop] >= 1

====
